---- MODULE Spec2Model ----
(***************************************************************************)
(* A model of jax/interpreters/polysimp.py: the sparse polynomial algebra  *)
(* (Mon, mul_coeffs, add_coeffs, mul_polynomials, add_polynomials,         *)
(* apply_linear), the evaluator (eval_polynomial, Horner's rule,           *)
(* instantiate_symbolic), the tracer (full_lower, pure, process_primitive) *)
(* and the driver polysimp.                                                *)
(*                                                                         *)
(* Spec    : one run of polysimp on a traced function built step by step   *)
(*           from add, mul and neg applied to inputs, constants and        *)
(*           earlier results.                                              *)
(* SpecAlg : the algebra as pure functions, applied to polynomials drawn   *)
(*           from a bounded set.                                           *)
(***************************************************************************)
EXTENDS Integers, Sequences, FiniteSets, TLC

VARIABLES vals, pool, nprims, pc, out, out_poly, evals, result,
          polyP, polyQ, polyR, algEnv, algOp, algL, algR

vars == <<vals, pool, nprims, pc, out, out_poly, evals, result,
          polyP, polyQ, polyR, algEnv, algOp, algL, algR>>

drvVars == <<vals, pool, nprims, pc, out, out_poly, evals, result>>
algVars == <<polyP, polyQ, polyR, algEnv, algOp, algL, algR>>

(***************************************************************************)
(* Bounds                                                                  *)
(***************************************************************************)
\* most inputs handed to polysimp
MaxInputs == 2
\* most primitives the traced function binds in one run
MaxPrims == 2
\* largest monomial degree a traced value may reach
MaxDeg == 4
\* largest magnitude of a coefficient or of a directly computed value
MaxAbs == 300
\* most terms of a polynomial drawn in SpecAlg
MaxTerms == 2

\* concrete scalar inputs of a run
InputVals == {-1, 0, 4}
\* literals the traced function uses
Consts == {2, 3}
\* the symbols of SpecAlg's polynomials
AlgSyms == {1, 2}

(***************************************************************************)
(* Coefficients: the sentinels zero and one, or a concrete host value.     *)
(* A record of kind "raise" stands for a host call that raised.            *)
(***************************************************************************)
zero == [k |-> "zero", v |-> 0]
one == [k |-> "one", v |-> 0]
Val(n) == [k |-> "val", v |-> n]
Raise(e) == [k |-> e, v |-> 0]

IsSentinel(c) == c = zero \/ c = one
IsVal(c) == c.k = "val"

\* the host's multiplication primitive on host values (primitive.bind)
HostMul(a, b) == IF IsVal(a) /\ IsVal(b) THEN Val(a.v * b.v) ELSE Raise("TypeError")
\* operator.mul
OpMul(a, b) == IF IsVal(a) /\ IsVal(b) THEN Val(a.v * b.v) ELSE Raise("TypeError")
\* the host's negation primitive on host values (primitive.bind): a sentinel
\* object is no host value, and the host raises on it
HostNeg(a) == IF IsVal(a) THEN Val(0 - a.v) ELSE Raise("TypeError")
\* Python's + on two numbers
HostAdd(a, b) == IF IsVal(a) /\ IsVal(b) THEN Val(a.v + b.v) ELSE Raise("TypeError")

\* a call of a function value handed around as an argument
Call(f, args) ==
  IF f = "mul.bind" THEN HostMul(args[1], args[2])
  ELSE IF f = "op.mul" THEN OpMul(args[1], args[2])
  ELSE HostNeg(args[1])

mul_coeffs(mul, a, b) ==
  IF a = zero \/ b = zero THEN zero
  ELSE IF a = one THEN b
  ELSE IF b = one THEN a
  ELSE Call(mul, <<a, b>>)

\* add_coeffs promoting a One on the left only
add_coeffs_left(a, b) ==
  IF a = zero THEN b
  ELSE IF b = zero THEN a
  ELSE IF a = one THEN HostAdd(Val(1), b)
  ELSE HostAdd(a, b)

add_coeffs(a, b) ==
  IF a = zero THEN b
  ELSE IF b = zero THEN a
  ELSE IF a = one \/ b = one
       THEN HostAdd(IF a = one THEN Val(1) ELSE a, IF b = one THEN Val(1) ELSE b)
  ELSE HostAdd(a, b)

(***************************************************************************)
(* Monomials: sorted tuples of symbols.                                    *)
(***************************************************************************)
RECURSIVE Insert(_, _)
Insert(x, s) ==
  IF s = << >> THEN <<x>>
  ELSE IF x <= Head(s) THEN <<x>> \o s
  ELSE <<Head(s)>> \o Insert(x, Tail(s))

RECURSIVE Sorted(_)
Sorted(s) == IF s = << >> THEN << >> ELSE Insert(Head(s), Sorted(Tail(s)))

Mon(elts) == Sorted(elts)

RECURSIVE heap_merge(_, _)
heap_merge(a, b) ==
  IF a = << >> THEN b
  ELSE IF b = << >> THEN a
  ELSE IF Head(a) <= Head(b) THEN <<Head(a)>> \o heap_merge(Tail(a), b)
  ELSE <<Head(b)>> \o heap_merge(a, Tail(b))

(***************************************************************************)
(* Polynomials: functions from a finite set of monomials to coefficients.  *)
(***************************************************************************)
EmptyPoly == [m \in {} |-> zero]

\* mul_polynomials storing each product instead of accumulating it
mul_polynomials_store(mul, p1, p2) ==
  LET pairs == (DOMAIN p1) \X (DOMAIN p2)
      mon(pr) == Mon(heap_merge(pr[1], pr[2]))
      last(S) == CHOOSE x \in S : TRUE
  IN [m \in {mon(pr) : pr \in pairs} |->
        LET pr == last({x \in pairs : mon(x) = m})
        IN mul_coeffs(mul, p1[pr[1]], p2[pr[2]])]

\* The products that land on one monomial are accumulated with add_coeffs in
\* the order the dictionaries are walked; the sum does not depend on it.
mul_polynomials(mul, p1, p2) ==
  LET pairs == (DOMAIN p1) \X (DOMAIN p2)
      mon(pr) == Mon(heap_merge(pr[1], pr[2]))
      RECURSIVE acc(_, _)
      acc(S, cur) ==
        IF S = {} THEN cur
        ELSE LET pr == CHOOSE x \in S : TRUE
             IN acc(S \ {pr}, add_coeffs(cur, mul_coeffs(mul, p1[pr[1]], p2[pr[2]])))
  IN [m \in {mon(pr) : pr \in pairs} |-> acc({pr \in pairs : mon(pr) = m}, zero)]

\* add_polynomials keeping the common monomials only
add_polynomials_common(p1, p2) ==
  [i \in (DOMAIN p1) \cap (DOMAIN p2) |-> add_coeffs(p1[i], p2[i])]

add_polynomials(p1, p2) ==
  LET indets1 == DOMAIN p1
      indets2 == DOMAIN p2
  IN [i \in indets1 \cup indets2 |->
        IF i \in indets1 \cap indets2 THEN add_coeffs(p1[i], p2[i])
        ELSE IF i \in indets1 THEN p1[i]
        ELSE p2[i]]

apply_linear(linear_fun, p) == [i \in DOMAIN p |-> Call(linear_fun, <<p[i]>>)]

const_poly(val) == [m \in {<< >>} |-> val]

(***************************************************************************)
(* Evaluation                                                              *)
(***************************************************************************)
MaxOf(S) == CHOOSE n \in S : \A m \in S : m <= n

\* coeffs = [zero] * (1 + max degree); coeffs[len(mon)] = coeff.  Monomials of
\* the same degree share a slot; it is read only where UniqueDegrees holds.
dense_coeffs(p) ==
  [d \in 0..MaxOf({Len(mon) : mon \in DOMAIN p}) |->
     IF \E mon \in DOMAIN p : Len(mon) = d
     THEN p[CHOOSE mon \in DOMAIN p : Len(mon) = d]
     ELSE zero]

\* Horner's rule walking the coefficients from degree 0 up
eval_univariate_polynomial_forward(x, coeffs) ==
  LET RECURSIVE horner(_, _)
      horner(i, acc) ==
        IF i > MaxOf(DOMAIN coeffs) THEN acc
        ELSE horner(i + 1, add_coeffs(mul_coeffs("op.mul", acc, x), coeffs[i]))
  IN horner(0, zero)

\* Horner's rule started from One
eval_univariate_polynomial_seed(x, coeffs) ==
  LET RECURSIVE horner(_, _)
      horner(i, acc) ==
        IF i < 0 THEN acc
        ELSE horner(i - 1, add_coeffs(mul_coeffs("op.mul", acc, x), coeffs[i]))
  IN horner(MaxOf(DOMAIN coeffs), one)

eval_univariate_polynomial(x, coeffs) ==
  LET RECURSIVE horner(_, _)
      horner(i, acc) ==
        IF i < 0 THEN acc
        ELSE horner(i - 1, add_coeffs(mul_coeffs("op.mul", acc, x), coeffs[i]))
  IN horner(MaxOf(DOMAIN coeffs), zero)

\* instantiate_symbolic refusing Zero only
instantiate_symbolic_zero(x) ==
  IF x = zero THEN Raise("NotImplementedError") ELSE x

instantiate_symbolic(x) ==
  IF x = zero \/ x = one THEN Raise("NotImplementedError") ELSE x

\* eval_polynomial refusing by the symbols of p instead of the size of env
eval_polynomial_symbols(environ, p) ==
  IF Cardinality(UNION {{mon[i] : i \in 1..Len(mon)} : mon \in DOMAIN p}) > 1
  THEN Raise("NotImplementedError")
  ELSE IF Cardinality(DOMAIN environ) # 1 THEN Raise("ValueError")
  ELSE IF DOMAIN p = {} THEN Raise("ValueError")
  ELSE LET x == Val(environ[CHOOSE s \in DOMAIN environ : TRUE])
       IN instantiate_symbolic(eval_univariate_polynomial(x, dense_coeffs(p)))

eval_polynomial(environ, p) ==
  IF Cardinality(DOMAIN environ) > 1 THEN Raise("NotImplementedError")
  ELSE IF Cardinality(DOMAIN environ) # 1 THEN Raise("ValueError")
  ELSE IF DOMAIN p = {} THEN Raise("ValueError")
  ELSE LET x == Val(environ[CHOOSE s \in DOMAIN environ : TRUE])
       IN instantiate_symbolic(eval_univariate_polynomial(x, dense_coeffs(p)))

(***************************************************************************)
(* Values of the traced program: a PolySimpTracer carrying a polynomial,   *)
(* or a plain host value.  dv is the value the same expression has when    *)
(* the function is executed directly on the inputs, without tracing.       *)
(***************************************************************************)
Tracer(p, d) == [kind |-> "tracer", poly |-> p, val |-> zero, dv |-> d]
Host(c, d) == [kind |-> "host", poly |-> EmptyPoly, val |-> c, dv |-> d]

full_lower(t) ==
  IF Cardinality(DOMAIN t.poly) = 1 /\ << >> \in DOMAIN t.poly
  THEN Host(t.poly[<< >>], t.dv)
  ELSE t

pure(v) == Tracer(const_poly(v.val), v.dv)

full_raise(v) == IF v.kind = "tracer" THEN v ELSE pure(v)

addition_primitives == {"add"}
multiplication_primitives == {"mul"}
linear_primitives == {"neg"}

process_primitive(primitive, tracers) ==
  IF primitive \in addition_primitives
  THEN add_polynomials(tracers[1].poly, tracers[2].poly)
  ELSE IF primitive \in multiplication_primitives
  THEN mul_polynomials("mul.bind", tracers[1].poly, tracers[2].poly)
  ELSE IF primitive \in linear_primitives
  THEN apply_linear("neg.bind", tracers[1].poly)
  ELSE const_poly(Raise("AssertionError"))

\* what the primitive computes on the directly executed values
impl(primitive, args) ==
  IF primitive = "add" THEN args[1].dv + args[2].dv
  ELSE IF primitive = "mul" THEN args[1].dv * args[2].dv
  ELSE 0 - args[1].dv

\* Primitive.bind: host values only are computed by the host; otherwise the
\* arguments are raised into the trace, the primitive is processed and the
\* result lowered
bind(primitive, args) ==
  IF \A i \in DOMAIN args : args[i].kind = "host"
  THEN Host(Val(impl(primitive, args)), impl(primitive, args))
  ELSE full_lower(Tracer(process_primitive(primitive, [i \in DOMAIN args |-> full_raise(args[i])]),
                         impl(primitive, args)))

\* the exception a value carries, if the call that made it raised
Raised(r) ==
  IF r.kind = "host"
  THEN (IF IsVal(r.val) \/ IsSentinel(r.val) THEN {} ELSE {r.val})
  ELSE {r.poly[m] : m \in {m \in DOMAIN r.poly : ~IsVal(r.poly[m]) /\ ~IsSentinel(r.poly[m])}}

Abs(n) == IF n < 0 THEN 0 - n ELSE n

WithinBounds(r) ==
  /\ Abs(r.dv) <= MaxAbs
  /\ r.kind = "host" => Abs(r.val.v) <= MaxAbs
  /\ \A m \in DOMAIN r.poly : Len(m) <= MaxDeg /\ Abs(r.poly[m].v) <= MaxAbs

(***************************************************************************)
(* The driver                                                              *)
(***************************************************************************)
NoResult == [k |-> "none", v |-> 0]
NoValue == [kind |-> "none", poly |-> EmptyPoly, val |-> zero, dv |-> 0]

symbols == 1..Len(vals)
new_poly(symbol) == [m \in {Mon(<<symbol>>)} |-> one]
in_tracers == {Tracer(new_poly(x), vals[x]) : x \in symbols}
env == [s \in symbols |-> vals[s]]

\* what the traced function can use: the traced inputs, earlier results, literals
Operands == pool \cup {Host(Val(c), c) : c \in Consts}

AlgIdle ==
  /\ polyP = EmptyPoly /\ polyQ = EmptyPoly /\ polyR = EmptyPoly /\ algEnv = << >>
  /\ algOp = "none" /\ algL = NoValue /\ algR = NoValue

Init ==
  /\ vals \in UNION {[1..n -> InputVals] : n \in 0..MaxInputs}
  /\ pool = {Tracer(new_poly(x), vals[x]) : x \in 1..Len(vals)}
  /\ nprims = 0
  /\ pc = "trace"
  /\ out = NoValue
  /\ out_poly = EmptyPoly
  /\ evals = 0
  /\ result = NoResult
  /\ AlgIdle

\* the traced function binds a primitive; an exception ends the run
Step(r) ==
  /\ nprims' = nprims + 1
  /\ IF Raised(r) # {}
     THEN /\ pc' = "done"
          /\ result' = CHOOSE e \in Raised(r) : TRUE
          /\ pool' = pool
     ELSE /\ WithinBounds(r)
          /\ pool' = pool \cup {r}
          /\ UNCHANGED <<pc, result>>
  /\ UNCHANGED <<vals, out, out_poly, evals, algVars>>

BindAdd ==
  /\ pc = "trace" /\ nprims < MaxPrims
  /\ \E a, b \in Operands : Step(bind("add", <<a, b>>))

BindMul ==
  /\ pc = "trace" /\ nprims < MaxPrims
  /\ \E a, b \in Operands : Step(bind("mul", <<a, b>>))

BindNeg ==
  /\ pc = "trace" /\ nprims < MaxPrims
  /\ \E a \in Operands : Step(bind("neg", <<a>>))

\* a primitive of none of the three classes, bound on a traced value
BindOther ==
  /\ pc = "trace" /\ nprims < MaxPrims
  /\ \E a \in pool : a.kind = "tracer" /\ Step(Tracer(process_primitive("sin", <<a>>), 0))

\* the traced function returns o; polysimp raises it and evaluates its polynomial
Return ==
  /\ pc = "trace"
  /\ \E o \in Operands :
       /\ out' = o
       /\ out_poly' = full_raise(o).poly
       /\ evals' = evals + 1
       /\ result' = eval_polynomial(env, full_raise(o).poly)
  /\ pc' = "done"
  /\ UNCHANGED <<vals, pool, nprims, algVars>>

Next == BindAdd \/ BindMul \/ BindNeg \/ BindOther \/ Return

Spec == Init /\ [][Next]_vars

(***************************************************************************)
(* The algebra as pure functions                                           *)
(***************************************************************************)
AlgMons == {<< >>} \cup {Mon(<<s>>) : s \in AlgSyms}
AlgCoeffs == {zero, one, Val(-1)}
AlgPolys ==
  UNION {[D -> AlgCoeffs] : D \in {D \in SUBSET AlgMons : Cardinality(D) <= MaxTerms}}

UniqueDegrees(p) ==
  \A m1, m2 \in DOMAIN p : Len(m1) = Len(m2) => m1 = m2

DrvIdle ==
  /\ vals = << >> /\ pool = {} /\ nprims = 0 /\ pc = "alg"
  /\ out = NoValue /\ out_poly = EmptyPoly /\ evals = 0 /\ result = NoResult

InitAlg ==
  /\ polyP \in AlgPolys
  /\ polyQ = EmptyPoly /\ polyR = EmptyPoly /\ algEnv = << >>
  /\ algOp = "none" /\ algL = NoValue /\ algR = NoValue
  /\ DrvIdle

Apply(op, q, r, lhs, rhs) ==
  /\ algOp' = op
  /\ polyQ' = q /\ polyR' = r
  /\ algL' = lhs /\ algR' = rhs
  /\ UNCHANGED <<polyP, algEnv, drvVars>>

AlgComm ==
  /\ algOp = "none"
  /\ \E q \in AlgPolys :
    Apply("comm", q, EmptyPoly,
          Tracer(add_polynomials(polyP, q), 0),
          Tracer(add_polynomials(q, polyP), 0))

AlgAssoc ==
  /\ algOp = "none"
  /\ \E q, r \in AlgPolys :
    Apply("assoc", q, r,
          Tracer(add_polynomials(add_polynomials(polyP, q), r), 0),
          Tracer(add_polynomials(polyP, add_polynomials(q, r)), 0))

AlgDistrib ==
  /\ algOp = "none"
  /\ \E q, r \in AlgPolys :
    Apply("distrib", q, r,
          Tracer(mul_polynomials("mul.bind", polyP, add_polynomials(q, r)), 0),
          Tracer(add_polynomials(mul_polynomials("mul.bind", polyP, q),
                                 mul_polynomials("mul.bind", polyP, r)), 0))

\* full_lower of a tracer carrying polyP
AlgLower ==
  /\ algOp = "none"
  /\ Apply("lower", EmptyPoly, EmptyPoly, full_lower(Tracer(polyP, 0)), Tracer(polyP, 0))

\* eval_polynomial of polyP in an environment of n symbols; algR keeps the
\* value Horner's rule ended with, when it ran
AlgEval ==
  /\ algOp = "none"
  /\ \E n \in 0..MaxInputs, x \in InputVals :
       LET environ == [s \in 1..n |-> x]
       IN /\ n = 1 => UniqueDegrees(polyP)
          /\ algEnv' = environ
          /\ algOp' = "eval"
          /\ algL' = Host(eval_polynomial(environ, polyP), x)
          /\ algR' = IF n # 1 \/ DOMAIN polyP = {} THEN NoValue
                     ELSE Host(eval_univariate_polynomial(Val(x), dense_coeffs(polyP)), x)
          /\ UNCHANGED <<polyP, polyQ, polyR, drvVars>>

NextAlg == AlgComm \/ AlgAssoc \/ AlgDistrib \/ AlgLower \/ AlgEval

SpecAlg == InitAlg /\ [][NextAlg]_vars

(***************************************************************************)
(* Properties                                                              *)
(***************************************************************************)
Returned == pc = "done" /\ evals = 1
OneInput == Len(vals) = 1
NotImplemented == Raise("NotImplementedError")

CoefAt(p, m) == IF m \in DOMAIN p THEN p[m] ELSE zero
\* equality of polynomials with a missing entry and a Zero entry the same
EqZ(p, q) == \A m \in DOMAIN p \cup DOMAIN q : CoefAt(p, m) = CoefAt(q, m)
\* the same, with One the concrete 1
AsVal(c) == IF c = one THEN Val(1) ELSE c
EqZ1(p, q) == \A m \in DOMAIN p \cup DOMAIN q : AsVal(CoefAt(p, m)) = AsVal(CoefAt(q, m))

\* C1: with one input and a function built from add, mul and neg only, every
\* run returns, and returns the value of executing the function directly.
RoundTrip ==
  (pc = "done" /\ OneInput /\ result # Raise("AssertionError"))
    => (evals = 1 /\ result = Val(out.dv))

\* C2: with two or more inputs eval_polynomial raises NotImplementedError,
\* whatever the output polynomial is.
MultivariateFails ==
  (Returned /\ Len(vals) >= 2) => result = NotImplemented

MultivariateFailsWitness ==
  /\ Returned /\ Len(vals) >= 2
  /\ \E m \in DOMAIN out_poly : Len(m) = 2
  /\ \A m \in DOMAIN out_poly : \A i \in 1..Len(m) : m[i] = 1
  /\ result = NotImplemented

\* C3: eval_polynomial never hands back the Zero or the One sentinel; when
\* Horner's rule ends with one, it raises NotImplementedError.
NoSentinelEscapes ==
  algOp = "eval" =>
    /\ ~IsSentinel(algL.val)
    /\ (algR # NoValue /\ IsSentinel(algR.val)) => algL.val = NotImplemented

NoSentinelEscapesWitness ==
  algOp = "eval" /\ algR # NoValue /\ algR.val = one /\ algL.val = NotImplemented

\* C4: with one input x, returning the input itself gives x: the dense array
\* is [Zero, One], Horner's rule yields x and nothing is raised.
IdentityFunction ==
  (Returned /\ OneInput /\ out \in in_tracers) =>
    /\ out_poly = new_poly(1)
    /\ dense_coeffs(out_poly) = [d \in 0..1 |-> IF d = 0 THEN zero ELSE one]
    /\ result = Val(vals[1])

IdentityFunctionWitness ==
  Returned /\ OneInput /\ out \in in_tracers /\ nprims = 0 /\ result = Val(4)

\* C5: with one input, negating the traced input and multiplying the result
\* by the input completes: no run ends with the host raising on a sentinel.
LinearThenMultiplicative ==
  (pc = "done" /\ OneInput) => result # Raise("TypeError")

\* C6 as stated: when the function returns a host value that does not depend
\* on the traced input, the driver returns it and eval_polynomial is never
\* invoked.
ConstantFoldingSkipsEvaluator ==
  (pc = "done" /\ OneInput /\ out.kind = "host") =>
    (result = Val(out.dv) /\ evals = 0)

\* C6 amended: when the function returns a host value that does not depend on
\* the traced input, the driver raises it to the constant polynomial, invokes
\* eval_polynomial once on it and returns the value.
ConstantFolding ==
  (pc = "done" /\ OneInput /\ out.kind = "host") =>
    /\ out_poly = const_poly(Val(out.dv))
    /\ evals = 1
    /\ result = Val(out.dv)

ConstantFoldingWitness ==
  /\ pc = "done" /\ OneInput /\ out = Host(Val(5), 5) /\ nprims = 1
  /\ pool = in_tracers \cup {out}
  /\ result = Val(5)

\* C7: p * (q + r) = p * q + p * r, with a missing entry and a Zero entry
\* the same and One the concrete 1.
Distributivity ==
  algOp = "distrib" => EqZ1(algL.poly, algR.poly)

DistributivityWitness ==
  /\ algOp = "distrib"
  /\ \E m \in DOMAIN algL.poly : Len(m) = 2 /\ m[1] # m[2] /\ algL.poly[m] = Val(-2)
  /\ \E m \in DOMAIN polyQ : polyQ[m] = one
  /\ EqZ1(algL.poly, algR.poly)

\* C8: p + q = q + p and (p + q) + r = p + (q + r), with a missing entry and
\* a Zero entry the same.
AdditionCommAssoc ==
  algOp \in {"comm", "assoc"} => EqZ(algL.poly, algR.poly)

AdditionCommAssocWitness ==
  /\ algOp = "assoc"
  /\ \E m \in DOMAIN polyP \cap DOMAIN polyQ \cap DOMAIN polyR :
       polyP[m] = one /\ polyQ[m] = one /\ polyR[m] = Val(-1) /\ algL.poly[m] = Val(1)
  /\ \E m \in DOMAIN polyP : polyP[m] = zero
  /\ EqZ(algL.poly, algR.poly)

\* C9: full_lower of a polynomial whose only entry is the empty monomial
\* returns the coefficient as a host value, but raises when the coefficient
\* is a sentinel; of every other polynomial it returns the tracer itself.
LowerSpec ==
  algOp = "lower" =>
    IF DOMAIN polyP = {<< >>}
    THEN IF IsSentinel(polyP[<< >>])
         THEN algL.kind = "host" /\ ~IsVal(algL.val) /\ ~IsSentinel(algL.val)
         ELSE algL = Host(polyP[<< >>], 0)
    ELSE algL = algR

\* C10: with one input, every traced value's polynomial is non-empty and has
\* at most one monomial of each degree, so the dense array of eval_polynomial
\* holds every term's coefficient.
SlotsOf(p) ==
  /\ DOMAIN p # {}
  /\ UniqueDegrees(p)
  /\ \A m \in DOMAIN p : dense_coeffs(p)[Len(m)] = p[m]

SingleVariableSlots ==
  OneInput =>
    /\ \A t \in pool : SlotsOf(full_raise(t).poly)
    /\ Returned => SlotsOf(out_poly)

SingleVariableSlotsWitness ==
  /\ Returned /\ OneInput /\ nprims = 2
  /\ Cardinality(DOMAIN out_poly) = 3
  /\ SlotsOf(out_poly)

====
